---- MODULE Spec2Model ----
(***************************************************************************)
(* The kernel generated by sparse_reshape.gen_ir                            *)
(* (python/tvm/topi/sparse_reshape.py): a sequential phase that resolves    *)
(* the output shape and builds the stride tables, followed by parallel      *)
(* per-row loops that either copy the coordinates (equal shapes) or         *)
(* flatten and unflatten them.                                              *)
(*                                                                          *)
(* Buffers are 0-indexed functions, as in the source.  The input matrix has *)
(* sparse_indices_ptr.shape = (N, prev_shape_size) and the output matrix    *)
(* new_sparse_indices_ptr.shape = (N, new_shape_size); all buffers share    *)
(* one integer dtype of IntBits bits.                                       *)
(***************************************************************************)
EXTENDS Integers, FiniteSets, Sequences, TLC

\* ---- bounds of the explored inputs ----
MaxDims == 2
MaxExtent == 3
MaxRows == 2

\* ---- the dtype of the buffers (new_shape_ptr.dtype), two's complement ----
IntBits == 16
Modulus == 2 ^ IntBits
MinInt == -(2 ^ (IntBits - 1))

\* Content of a buffer element that no statement has written yet; it lies
\* outside the dtype so that it differs from every value a store can write.
Uninit == 2 ^ IntBits

\* A store of x into a buffer of the dtype keeps the low IntBits bits.
Wrap(x) == ((x - MinInt) % Modulus) + MinInt

Abs(x) == IF x < 0 THEN -x ELSE x
Sign(x) == IF x < 0 THEN -1 ELSE 1

\* te.div: division truncating toward zero (b # 0).
TruncDiv(a, b) == Sign(a) * Sign(b) * (Abs(a) \div Abs(b))

\* te.floordiv / te.floormod: division rounding toward minus infinity (b # 0).
FloorDiv(a, b) ==
  LET q == TruncDiv(a, b)
  IN  IF q * b # a /\ ((a < 0) # (b < 0)) THEN q - 1 ELSE q

\* Mutant: the quotient is not scaled back by the divisor.
FloorModUnscaled(a, b) == a - FloorDiv(a, b)

FloorMod(a, b) == a - FloorDiv(a, b) * b

\* Integer division by zero is undefined in the generated code: the build
\* either traps (x86 idiv) or goes on with a quotient the hardware leaves
\* (0 on AArch64 sdiv; -1 after the floordiv correction of a negative
\* dividend) and the matching remainder a - q * 0 = a.
DivOutcomes(a, b) ==
  IF b # 0
  THEN {[trap |-> FALSE, quot |-> Wrap(TruncDiv(a, b))]}
  ELSE {[trap |-> TRUE, quot |-> 0], [trap |-> FALSE, quot |-> 0],
        [trap |-> FALSE, quot |-> -1]}

FloorDivModOutcomes(a, b) ==
  IF b # 0
  THEN {[trap |-> FALSE, quot |-> Wrap(FloorDiv(a, b)), rem |-> Wrap(FloorMod(a, b))]}
  ELSE {[trap |-> TRUE, quot |-> 0, rem |-> a],
        [trap |-> FALSE, quot |-> 0, rem |-> a],
        [trap |-> FALSE, quot |-> -1, rem |-> a]}

Size(buf) == Cardinality(DOMAIN buf)

\* ---- input domains ----
\* prev_shape entries: 0 is an invalid extent.
PrevVals == 0 .. MaxExtent
\* new_shape entries: -1 is the sentinel, 0 an invalid extent.
NewVals == -1 .. MaxExtent
\* coordinates, in and out of range of the extents of a given prev_shape.
CoordVals == 0 .. (MaxExtent - 1)

Vectors(vals) == UNION {[0 .. (d - 1) -> vals] : d \in 1 .. MaxDims}
Matrices(cols) ==
  UNION {[0 .. (r - 1) -> [0 .. (cols - 1) -> CoordVals]] : r \in 0 .. MaxRows}

VARIABLES
  sparse_indices,      \* input, N x n_dim
  prev_shape,          \* input, n_dim
  new_shape,           \* input, m_dim
  new_sparse_indices,  \* output, N x m_dim
  out_new_shape,       \* output, m_dim
  multipliers,         \* scratch, n_dim
  dividers,            \* scratch, m_dim
  flattened_indices,   \* scratch, N
  total_ele,           \* scratch scalar
  division_total_ele,  \* scratch scalar
  equal_shape,         \* scratch bool
  current_element,     \* scratch scalar of each iteration of the last loop
  pc,                  \* position of the sequential code
  k,                   \* index of the running sequential loop
  rpc,                 \* position of each iteration of the running parallel loop
  rj                   \* inner index j of each such iteration

\* make_inputs_dict of python/tvm/driver/tvmc/runner.py, which builds the
\* inputs of a graph run; dictionaries are functions on their keys.
VARIABLES
  shape_dict,          \* argument: {input_name: shape}
  dtype_dict,          \* argument: {input_name: dtype}
  inputs_param,        \* argument "inputs": None or {input_name: value}
  fill_mode,           \* argument
  inputs_dict,         \* the dictionary under construction
  checked,             \* keys of inputs the first loop has passed
  mi_pc                \* position in make_inputs_dict

kernel == <<sparse_indices, prev_shape, new_shape, new_sparse_indices,
            out_new_shape, multipliers, dividers, flattened_indices, total_ele,
            division_total_ele, equal_shape, current_element, pc, k, rpc, rj>>

runner == <<shape_dict, dtype_dict, inputs_param, fill_mode, inputs_dict,
            checked, mi_pc>>

vars == <<kernel, runner>>

\* The empty dictionary.
EmptyDict == <<>>

\* The value None of the argument "inputs", and a given dictionary.
NoInputs == [none |-> TRUE, dict |-> EmptyDict]
Given(dict) == [none |-> FALSE, dict |-> dict]

\* make_inputs_dict is not running.
RunnerIdle ==
  /\ shape_dict = EmptyDict
  /\ dtype_dict = EmptyDict
  /\ inputs_param = NoInputs
  /\ fill_mode = "random"
  /\ inputs_dict = EmptyDict
  /\ checked = {}
  /\ mi_pc = "idle"

inputs == <<sparse_indices, prev_shape, new_shape>>

prev_shape_size == Size(prev_shape)
new_shape_size == Size(new_shape)
NumRows == Size(sparse_indices)
Rows == 0 .. (NumRows - 1)

\* The state on entry of the kernel, for given input buffers.
Entry(si, ps, ns) ==
  /\ sparse_indices = si
  /\ prev_shape = ps
  /\ new_shape = ns
  /\ new_sparse_indices = [i \in DOMAIN si |-> [j \in DOMAIN ns |-> Uninit]]
  /\ out_new_shape = [j \in DOMAIN ns |-> Uninit]
  /\ multipliers = [j \in DOMAIN ps |-> Uninit]
  /\ dividers = [j \in DOMAIN ns |-> Uninit]
  /\ flattened_indices = [i \in DOMAIN si |-> Uninit]
  /\ total_ele = Uninit
  /\ division_total_ele = Uninit
  /\ equal_shape = FALSE
  /\ current_element = [i \in DOMAIN si |-> Uninit]
  /\ pc = "start"
  /\ k = 0
  /\ rpc = [i \in DOMAIN si |-> "idle"]
  /\ rj = [i \in DOMAIN si |-> 0]
  /\ RunnerIdle

Init ==
  \E ps \in Vectors(PrevVals), ns \in Vectors(NewVals) :
    \E si \in Matrices(Size(ps)) : Entry(si, ps, ns)

\* ---- sequential phase ----

\* Mutant: a call without rows returns at once.
TotalInitEmptyReturn ==
  /\ pc = "start"
  /\ IF NumRows = 0
     THEN /\ pc' = "done"
          /\ UNCHANGED <<total_ele, multipliers, k>>
     ELSE /\ total_ele' = prev_shape[0]
          /\ multipliers' = [multipliers EXCEPT ![prev_shape_size - 1] = 1]
          /\ k' = 0
          /\ pc' = IF prev_shape_size - 1 > 0 THEN "multipliers"
                   ELSE "division_init"
  /\ UNCHANGED <<runner, inputs, new_sparse_indices, out_new_shape, dividers,
                 flattened_indices, division_total_ele, equal_shape,
                 current_element, rpc, rj>>

\* total_ele[0] = prev_shape[0]; multipliers[prev_shape_size - 1] = 1
TotalInit ==
  /\ pc = "start"
  /\ total_ele' = prev_shape[0]
  /\ multipliers' = [multipliers EXCEPT ![prev_shape_size - 1] = 1]
  /\ k' = 0
  /\ pc' = IF prev_shape_size - 1 > 0 THEN "multipliers" ELSE "division_init"
  /\ UNCHANGED <<runner, inputs, new_sparse_indices, out_new_shape, dividers,
                 flattened_indices, division_total_ele, equal_shape,
                 current_element, rpc, rj>>

\* Mutant: multiplies by the extent of the entry's own dimension.
MultiplierEntryOwnExtent(shape, table, i) ==
  Wrap(shape[Size(shape) - 1 - i] * table[Size(shape) - i])

\* One entry of the multiplier table, from the entry to its right.
MultiplierEntry(shape, table, i) ==
  Wrap(shape[Size(shape) - i] * table[Size(shape) - i])

\* One iteration of the loop "Cumulative Reverse Exclusive Multiply".
MultipliersStep ==
  /\ pc = "multipliers"
  /\ LET i == k + 1
     IN  /\ multipliers' = [multipliers EXCEPT ![prev_shape_size - 1 - i] =
                              MultiplierEntry(prev_shape, multipliers, i)]
         /\ total_ele' = Wrap(total_ele * prev_shape[prev_shape_size - i])
  /\ k' = IF k + 1 < prev_shape_size - 1 THEN k + 1 ELSE 0
  /\ pc' = IF k + 1 < prev_shape_size - 1 THEN "multipliers" ELSE "division_init"
  /\ UNCHANGED <<runner, inputs, new_sparse_indices, out_new_shape, dividers,
                 flattened_indices, division_total_ele, equal_shape,
                 current_element, rpc, rj>>

\* division_total_ele[0] = 1
DivisionTotalInit ==
  /\ pc = "division_init"
  /\ division_total_ele' = 1
  /\ k' = 0
  /\ pc' = "division_total"
  /\ UNCHANGED <<runner, inputs, new_sparse_indices, out_new_shape, multipliers,
                 dividers, flattened_indices, total_ele, equal_shape,
                 current_element, rpc, rj>>

\* Mutant: the loop multiplies every entry, the -1 too.
DivisionTotalStepNoTest ==
  /\ pc = "division_total"
  /\ division_total_ele' = Wrap(division_total_ele * new_shape[k])
  /\ k' = IF k + 1 < new_shape_size THEN k + 1 ELSE 0
  /\ pc' = IF k + 1 < new_shape_size THEN "division_total" ELSE "out_new_shape"
  /\ UNCHANGED <<runner, inputs, new_sparse_indices, out_new_shape, multipliers,
                 dividers, flattened_indices, total_ele, equal_shape,
                 current_element, rpc, rj>>

\* One iteration of the loop multiplying the entries other than -1.
DivisionTotalStep ==
  /\ pc = "division_total"
  /\ division_total_ele' =
       IF new_shape[k] # -1 THEN Wrap(division_total_ele * new_shape[k])
       ELSE division_total_ele
  /\ k' = IF k + 1 < new_shape_size THEN k + 1 ELSE 0
  /\ pc' = IF k + 1 < new_shape_size THEN "division_total" ELSE "out_new_shape"
  /\ UNCHANGED <<runner, inputs, new_sparse_indices, out_new_shape, multipliers,
                 dividers, flattened_indices, total_ele, equal_shape,
                 current_element, rpc, rj>>

\* One iteration of the loop "Compute true output shape (replace negative ones)".
OutNewShapeStep ==
  /\ pc = "out_new_shape"
  /\ \E o \in (IF new_shape[k] = -1
               THEN DivOutcomes(total_ele, division_total_ele)
               ELSE {[trap |-> FALSE, quot |-> new_shape[k]]}) :
       IF o.trap
       THEN /\ pc' = "trap"
            /\ UNCHANGED <<out_new_shape, k>>
       ELSE /\ out_new_shape' = [out_new_shape EXCEPT ![k] = o.quot]
            /\ k' = IF k + 1 < new_shape_size THEN k + 1 ELSE 0
            /\ pc' = IF k + 1 < new_shape_size THEN "out_new_shape"
                     ELSE "equal_shape"
  /\ UNCHANGED <<runner, inputs, new_sparse_indices, multipliers, dividers,
                 flattened_indices, total_ele, division_total_ele, equal_shape,
                 current_element, rpc, rj>>

\* "Check if prev_shape and new_shape are equal"
EqualShape(ps, ons) ==
  /\ Size(ps) = Size(ons)
  /\ \A i \in DOMAIN ps : ps[i] = ons[i]

EqualShapeCheck ==
  /\ pc = "equal_shape"
  /\ equal_shape' = EqualShape(prev_shape, out_new_shape)
  /\ pc' = "branch"
  /\ UNCHANGED <<runner, inputs, new_sparse_indices, out_new_shape, multipliers,
                 dividers, flattened_indices, total_ele, division_total_ele,
                 current_element, k, rpc, rj>>

\* ---- shortcut: "Return same inputs if shapes are equal" ----

\* if equal_shape[0]: enter the parallel copy loop
CopyBegin ==
  /\ pc = "branch"
  /\ equal_shape
  /\ pc' = "copy"
  /\ rpc' = [i \in Rows |-> "copy"]
  /\ rj' = [i \in Rows |-> 0]
  /\ UNCHANGED <<runner, inputs, new_sparse_indices, out_new_shape, multipliers,
                 dividers, flattened_indices, total_ele, division_total_ele,
                 equal_shape, current_element, k>>

\* Mutant: the copy reads column 0 of the input for every column.
CopyStepColumnZero(i) ==
  /\ pc = "copy"
  /\ rpc[i] = "copy"
  /\ new_sparse_indices' =
       [new_sparse_indices EXCEPT ![i][rj[i]] = sparse_indices[i][0]]
  /\ rj' = [rj EXCEPT ![i] = IF rj[i] + 1 < prev_shape_size THEN rj[i] + 1 ELSE 0]
  /\ rpc' = [rpc EXCEPT ![i] = IF rj[i] + 1 < prev_shape_size THEN "copy" ELSE "done"]
  /\ UNCHANGED <<runner, inputs, out_new_shape, multipliers, dividers,
                 flattened_indices, total_ele, division_total_ele, equal_shape,
                 current_element, pc, k>>

\* new_sparse_indices[i, j] = sparse_indices[i, j], iteration i of the
\* parallel loop at its inner index j.
CopyStep(i) ==
  /\ pc = "copy"
  /\ rpc[i] = "copy"
  /\ new_sparse_indices' =
       [new_sparse_indices EXCEPT ![i][rj[i]] = sparse_indices[i][rj[i]]]
  /\ rj' = [rj EXCEPT ![i] = IF rj[i] + 1 < prev_shape_size THEN rj[i] + 1 ELSE 0]
  /\ rpc' = [rpc EXCEPT ![i] = IF rj[i] + 1 < prev_shape_size THEN "copy" ELSE "done"]
  /\ UNCHANGED <<runner, inputs, out_new_shape, multipliers, dividers,
                 flattened_indices, total_ele, division_total_ele, equal_shape,
                 current_element, pc, k>>

\* ---- general path: "Else compute new_sparse_indices" ----

\* The first parallel loop starts: every iteration is at its first statement.
FlattenBegin ==
  /\ pc' = "flatten"
  /\ rpc' = [i \in Rows |-> "flatten_init"]
  /\ rj' = [i \in Rows |-> 0]

\* Mutant: the loop that fills dividers is skipped for two dimensions.
DividersInitSkipLoop ==
  /\ pc = "branch"
  /\ ~equal_shape
  /\ dividers' = [dividers EXCEPT ![new_shape_size - 1] = 1]
  /\ k' = 0
  /\ IF new_shape_size - 1 > 1
     THEN pc' = "dividers" /\ UNCHANGED <<rpc, rj>>
     ELSE FlattenBegin
  /\ UNCHANGED <<runner, inputs, new_sparse_indices, out_new_shape, multipliers,
                 flattened_indices, total_ele, division_total_ele, equal_shape,
                 current_element>>

\* else: dividers[new_shape_size - 1] = 1
DividersInit ==
  /\ pc = "branch"
  /\ ~equal_shape
  /\ dividers' = [dividers EXCEPT ![new_shape_size - 1] = 1]
  /\ k' = 0
  /\ IF new_shape_size - 1 > 0
     THEN pc' = "dividers" /\ UNCHANGED <<rpc, rj>>
     ELSE FlattenBegin
  /\ UNCHANGED <<runner, inputs, new_sparse_indices, out_new_shape, multipliers,
                 flattened_indices, total_ele, division_total_ele, equal_shape,
                 current_element>>

\* Mutant: multiplies by the extent of the entry's own dimension.
DividerEntryOwnExtent(shape, table, i) ==
  Wrap(table[Size(shape) - i] * shape[Size(shape) - 1 - i])

\* One entry of the divider table, from the entry to its right.
DividerEntry(shape, table, i) ==
  Wrap(table[Size(shape) - i] * shape[Size(shape) - i])

\* One iteration of the loop that fills dividers.
DividersStep ==
  /\ pc = "dividers"
  /\ LET i == k + 1
     IN  dividers' = [dividers EXCEPT ![new_shape_size - 1 - i] =
                        DividerEntry(out_new_shape, dividers, i)]
  /\ IF k + 1 < new_shape_size - 1
     THEN k' = k + 1 /\ UNCHANGED <<pc, rpc, rj>>
     ELSE k' = 0 /\ FlattenBegin
  /\ UNCHANGED <<runner, inputs, new_sparse_indices, out_new_shape, multipliers,
                 flattened_indices, total_ele, division_total_ele, equal_shape,
                 current_element>>

\* flattened_indices[i] = 0
FlattenInit(i) ==
  /\ pc = "flatten"
  /\ rpc[i] = "flatten_init"
  /\ flattened_indices' = [flattened_indices EXCEPT ![i] = 0]
  /\ rpc' = [rpc EXCEPT ![i] = "flatten"]
  /\ UNCHANGED <<runner, inputs, new_sparse_indices, out_new_shape, multipliers,
                 dividers, total_ele, division_total_ele, equal_shape,
                 current_element, pc, k, rj>>

\* Mutant: the product is stored, not added to the sum so far.
FlattenAddOverwrite(acc, coord, mult) == Wrap(coord * mult)

\* flattened_indices[i] += sparse_indices[i, j] * multipliers[j]
FlattenAdd(acc, coord, mult) == Wrap(acc + Wrap(coord * mult))

FlattenStep(i) ==
  /\ pc = "flatten"
  /\ rpc[i] = "flatten"
  /\ flattened_indices' =
       [flattened_indices EXCEPT ![i] =
          FlattenAdd(flattened_indices[i], sparse_indices[i][rj[i]],
                     multipliers[rj[i]])]
  /\ rj' = [rj EXCEPT ![i] = IF rj[i] + 1 < prev_shape_size THEN rj[i] + 1 ELSE 0]
  /\ rpc' = [rpc EXCEPT ![i] = IF rj[i] + 1 < prev_shape_size THEN "flatten"
                               ELSE "flatten_done"]
  /\ UNCHANGED <<runner, inputs, new_sparse_indices, out_new_shape, multipliers,
                 dividers, total_ele, division_total_ele, equal_shape,
                 current_element, pc, k>>

\* The first parallel loop has joined; the second one starts.
UnflattenBegin ==
  /\ pc = "flatten"
  /\ \A i \in Rows : rpc[i] = "flatten_done"
  /\ pc' = "unflatten"
  /\ rpc' = [i \in Rows |-> "unflatten_init"]
  /\ rj' = [i \in Rows |-> 0]
  /\ UNCHANGED <<runner, inputs, new_sparse_indices, out_new_shape, multipliers,
                 dividers, flattened_indices, total_ele, division_total_ele,
                 equal_shape, current_element, k>>

\* Mutant: current_element is one scalar shared by all iterations.
UnflattenInitShared(i) ==
  /\ pc = "unflatten"
  /\ rpc[i] = "unflatten_init"
  /\ current_element' = [r \in Rows |-> flattened_indices[i]]
  /\ rpc' = [rpc EXCEPT ![i] = "unflatten"]
  /\ UNCHANGED <<runner, inputs, new_sparse_indices, out_new_shape, multipliers,
                 dividers, flattened_indices, total_ele, division_total_ele,
                 equal_shape, pc, k, rj>>

\* current_element[0] = flattened_indices[i]
UnflattenInit(i) ==
  /\ pc = "unflatten"
  /\ rpc[i] = "unflatten_init"
  /\ current_element' = [current_element EXCEPT ![i] = flattened_indices[i]]
  /\ rpc' = [rpc EXCEPT ![i] = "unflatten"]
  /\ UNCHANGED <<runner, inputs, new_sparse_indices, out_new_shape, multipliers,
                 dividers, flattened_indices, total_ele, division_total_ele,
                 equal_shape, pc, k, rj>>

\* new_sparse_indices[i, j] = floordiv(current_element[0], dividers[j]);
\* current_element[0] = floormod(current_element[0], dividers[j])
UnflattenStep(i) ==
  /\ pc = "unflatten"
  /\ rpc[i] = "unflatten"
  /\ \E o \in FloorDivModOutcomes(current_element[i], dividers[rj[i]]) :
       IF o.trap
       THEN /\ pc' = "trap"
            /\ UNCHANGED <<new_sparse_indices, current_element, rpc, rj>>
       ELSE /\ new_sparse_indices' =
                 [new_sparse_indices EXCEPT ![i][rj[i]] = o.quot]
            /\ current_element' = [current_element EXCEPT ![i] = o.rem]
            /\ rj' = [rj EXCEPT ![i] =
                        IF rj[i] + 1 < new_shape_size THEN rj[i] + 1 ELSE 0]
            /\ rpc' = [rpc EXCEPT ![i] =
                         IF rj[i] + 1 < new_shape_size THEN "unflatten" ELSE "done"]
            /\ pc' = pc
  /\ UNCHANGED <<runner, inputs, out_new_shape, multipliers, dividers,
                 flattened_indices, total_ele, division_total_ele, equal_shape,
                 k>>

\* The last parallel loop has joined: return ib.get()
Return ==
  /\ pc \in {"copy", "unflatten"}
  /\ \A i \in Rows : rpc[i] = "done"
  /\ pc' = "done"
  /\ UNCHANGED <<runner, inputs, new_sparse_indices, out_new_shape, multipliers,
                 dividers, flattened_indices, total_ele, division_total_ele,
                 equal_shape, current_element, k, rpc, rj>>

\* ---- the kernel as a function of its inputs (rows taken in index order) ----

RECURSIVE MultipliersUpTo(_, _)
\* multipliers after i iterations of its loop.
MultipliersUpTo(shape, i) ==
  IF i = 0
  THEN [j \in DOMAIN shape |-> IF j = Size(shape) - 1 THEN 1 ELSE Uninit]
  ELSE LET t == MultipliersUpTo(shape, i - 1)
       IN  [t EXCEPT ![Size(shape) - 1 - i] = MultiplierEntry(shape, t, i)]

MultipliersOf(shape) == MultipliersUpTo(shape, Size(shape) - 1)

RECURSIVE DividersUpTo(_, _)
\* dividers after i iterations of its loop.
DividersUpTo(shape, i) ==
  IF i = 0
  THEN [j \in DOMAIN shape |-> IF j = Size(shape) - 1 THEN 1 ELSE Uninit]
  ELSE LET t == DividersUpTo(shape, i - 1)
       IN  [t EXCEPT ![Size(shape) - 1 - i] = DividerEntry(shape, t, i)]

DividersOf(shape) == DividersUpTo(shape, Size(shape) - 1)

RECURSIVE TotalEleUpTo(_, _)
\* total_ele after i iterations of the multipliers loop.
TotalEleUpTo(shape, i) ==
  IF i = 0 THEN shape[0]
  ELSE Wrap(TotalEleUpTo(shape, i - 1) * shape[Size(shape) - i])

TotalEleOf(shape) == TotalEleUpTo(shape, Size(shape) - 1)

RECURSIVE DivisionTotalUpTo(_, _)
\* division_total_ele after i iterations of its loop.
DivisionTotalUpTo(shape, i) ==
  IF i = 0 THEN 1
  ELSE LET d == DivisionTotalUpTo(shape, i - 1)
       IN  IF shape[i - 1] # -1 THEN Wrap(d * shape[i - 1]) ELSE d

DivisionTotalOf(shape) == DivisionTotalUpTo(shape, Size(shape))

\* out_new_shape, where the division is defined (DivisionTotalOf(ns) # 0 or
\* ns without -1).
OutNewShapeOf(ps, ns) ==
  [j \in DOMAIN ns |->
     IF ns[j] = -1
     THEN (CHOOSE o \in DivOutcomes(TotalEleOf(ps), DivisionTotalOf(ns)) : ~o.trap).quot
     ELSE ns[j]]

RECURSIVE FlattenUpTo(_, _, _)
\* flattened_indices[i] after j iterations of the inner loop over a row.
FlattenUpTo(row, table, j) ==
  IF j = 0 THEN 0
  ELSE FlattenAdd(FlattenUpTo(row, table, j - 1), row[j - 1], table[j - 1])

FlattenOf(row, table) == FlattenUpTo(row, table, Size(row))

RECURSIVE CurrentElementUpTo(_, _, _)
\* current_element[0] after j iterations of the inner loop (table without 0).
CurrentElementUpTo(x, table, j) ==
  IF j = 0 THEN x
  ELSE (CHOOSE o \in FloorDivModOutcomes(CurrentElementUpTo(x, table, j - 1),
                                         table[j - 1]) : ~o.trap).rem

\* The output row of the flattened offset x (table without 0).
UnflattenOf(x, table) ==
  [j \in DOMAIN table |->
     (CHOOSE o \in FloorDivModOutcomes(CurrentElementUpTo(x, table, j), table[j]) :
        ~o.trap).quot]

\* The general path over all rows (ons without 0 right of its first entry).
GeneralPath(si, ps, ons) ==
  [i \in DOMAIN si |-> UnflattenOf(FlattenOf(si[i], MultipliersOf(ps)), DividersOf(ons))]

\* new_sparse_indices as returned for the inputs (no division by zero).
NewSparseIndicesOf(si, ps, ns) ==
  LET ons == OutNewShapeOf(ps, ns)
  IN  IF EqualShape(ps, ons) THEN si ELSE GeneralPath(si, ps, ons)

Next ==
  \/ TotalInit
  \/ MultipliersStep
  \/ DivisionTotalInit
  \/ DivisionTotalStep
  \/ OutNewShapeStep
  \/ EqualShapeCheck
  \/ CopyBegin
  \/ \E i \in Rows : CopyStep(i)
  \/ DividersInit
  \/ DividersStep
  \/ \E i \in Rows : FlattenInit(i)
  \/ \E i \in Rows : FlattenStep(i)
  \/ UnflattenBegin
  \/ \E i \in Rows : UnflattenInit(i)
  \/ \E i \in Rows : UnflattenStep(i)
  \/ Return

Spec == Init /\ [][Next]_vars

\* ---- vocabulary of the properties (exact integers, no dtype) ----

RECURSIVE ProductFrom(_, _)
\* shape[j] * shape[j+1] * ... , 1 for the empty range.
ProductFrom(shape, j) ==
  IF j >= Size(shape) THEN 1 ELSE shape[j] * ProductFrom(shape, j + 1)

Product(shape) == ProductFrom(shape, 0)

RECURSIVE KnownFrom(_, _)
\* The product of the entries of shape other than -1, from index j on.
KnownFrom(shape, j) ==
  IF j >= Size(shape) THEN 1
  ELSE (IF shape[j] = -1 THEN 1 ELSE shape[j]) * KnownFrom(shape, j + 1)

KnownProduct(shape) == KnownFrom(shape, 0)

SentinelCount(shape) == Cardinality({j \in DOMAIN shape : shape[j] = -1})

RECURSIVE OffsetFrom(_, _, _)
\* Row-major linear offset of the coordinates row[j..] under shape.
OffsetFrom(row, shape, j) ==
  IF j >= Size(shape) THEN 0
  ELSE row[j] * ProductFrom(shape, j + 1) + OffsetFrom(row, shape, j + 1)

LinearOffset(row, shape) == OffsetFrom(row, shape, 0)

\* All prev_shape entries positive and new_shape entries positive except at
\* most one -1.
EntriesValid ==
  /\ \A j \in DOMAIN prev_shape : prev_shape[j] > 0
  /\ \A j \in DOMAIN new_shape : new_shape[j] > 0 \/ new_shape[j] = -1
  /\ SentinelCount(new_shape) <= 1

\* Valid entries, and the known product divides the element count if there
\* is a -1.
ValidCall ==
  /\ EntriesValid
  /\ SentinelCount(new_shape) = 1 =>
       Product(prev_shape) % KnownProduct(new_shape) = 0

\* Every coordinate of the input lies within the extent of its dimension.
CoordsInRange ==
  \A i \in Rows : \A j \in DOMAIN prev_shape :
    0 <= sparse_indices[i][j] /\ sparse_indices[i][j] < prev_shape[j]

Returned == pc = "done"

\* C1: after a valid call, row i of the output has the same row-major linear
\* offset under the resolved shape as row i of the input under prev_shape.
C1_OrderPreservation ==
  (Returned /\ ValidCall) =>
    \A i \in Rows :
      LinearOffset(new_sparse_indices[i], out_new_shape)
        = LinearOffset(sparse_indices[i], prev_shape)

\* C1 witness: a valid call took the general path from two to one dimension
\* with two different rows, one of them at a non-zero offset.
C1_Witness ==
  /\ Returned /\ ValidCall /\ ~equal_shape
  /\ NumRows = 2 /\ sparse_indices[0] # sparse_indices[1]
  /\ prev_shape_size = 2 /\ new_shape_size = 1
  /\ LinearOffset(sparse_indices[1], prev_shape) > 2

\* C2: with exactly one -1 whose known product divides the element count P,
\* the resolved shape holds P / known at the -1, copies the other entries
\* and has product P.
C2_ShapeInference ==
  (/\ pc \in {"equal_shape", "branch", "done"}
   /\ SentinelCount(new_shape) = 1
   /\ KnownProduct(new_shape) > 0
   /\ Product(prev_shape) % KnownProduct(new_shape) = 0) =>
    /\ \A j \in DOMAIN new_shape :
         out_new_shape[j] =
           IF new_shape[j] = -1
           THEN Product(prev_shape) \div KnownProduct(new_shape)
           ELSE new_shape[j]
    /\ Product(out_new_shape) = Product(prev_shape)

\* C2 witness: a -1 beside a known entry 2 was resolved to 3.
C2_Witness ==
  /\ Returned
  /\ new_shape_size = 2 /\ new_shape[0] = -1 /\ new_shape[1] = 2
  /\ Product(prev_shape) = 6
  /\ out_new_shape[0] = 3

\* C3 (as claimed): every call on valid entries that returns, with or
\* without a -1 in new_shape, leaves a resolved shape of positive entries
\* whose product is the element count of prev_shape.
C3_ResolvedProduct ==
  (Returned /\ EntriesValid) =>
    /\ \A j \in DOMAIN out_new_shape : out_new_shape[j] > 0
    /\ Product(out_new_shape) = Product(prev_shape)

\* C4: for compatible shapes and coordinates in range, reshaping the output
\* from the resolved shape back to prev_shape gives the input again.
C4_RoundTrip ==
  (/\ Returned /\ ValidCall /\ CoordsInRange
   /\ Product(out_new_shape) = Product(prev_shape)) =>
    NewSparseIndicesOf(new_sparse_indices, out_new_shape, prev_shape)
      = sparse_indices

\* C4 witness: a round trip through the general path in both directions,
\* with a row whose coordinates change.
C4_Witness ==
  /\ Returned /\ ValidCall /\ CoordsInRange /\ ~equal_shape
  /\ Product(out_new_shape) = Product(prev_shape)
  /\ prev_shape_size = 2 /\ new_shape_size = 2
  /\ NumRows = 2
  /\ \E i \in Rows : new_sparse_indices[i] # sparse_indices[i]

\* C5 (as claimed): whenever a valid call takes the shortcut, its output is
\* the input and is what the general path computes on the same input.
C5_IdentityEquivalence ==
  (Returned /\ equal_shape /\ ValidCall) =>
    /\ new_sparse_indices = sparse_indices
    /\ new_sparse_indices = GeneralPath(sparse_indices, prev_shape, out_new_shape)

\* C5 (amended): the same, for input coordinates within the extents of
\* prev_shape.
C5_IdentityEquivalenceInRange ==
  (Returned /\ equal_shape /\ CoordsInRange) =>
    /\ new_sparse_indices = sparse_indices
    /\ new_sparse_indices = GeneralPath(sparse_indices, prev_shape, out_new_shape)

\* C5 witness: the shortcut copied two rows of two in-range coordinates,
\* not all zero.
C5_Witness ==
  /\ Returned /\ equal_shape /\ CoordsInRange
  /\ NumRows = 2 /\ prev_shape_size = 2
  /\ sparse_indices[1][0] > 0 /\ sparse_indices[0][1] > 0

NoOutputWritten ==
  /\ \A j \in DOMAIN out_new_shape : out_new_shape[j] = Uninit
  /\ \A i \in Rows : \A j \in DOMAIN new_shape : new_sparse_indices[i][j] = Uninit

\* The kernel has no statement that reports an error; a run ends by
\* returning or by the trap of a division by zero, so a call that reports an
\* error at least does not return.

\* C6 (as claimed): with more than one -1 in new_shape (and entries positive
\* otherwise) an error is reported and no element of either output is
\* written.
C6_MultipleSentinelsRejected ==
  (/\ SentinelCount(new_shape) > 1
   /\ \A j \in DOMAIN prev_shape : prev_shape[j] > 0
   /\ \A j \in DOMAIN new_shape : new_shape[j] > 0 \/ new_shape[j] = -1) =>
    (NoOutputWritten /\ ~Returned)

\* C7 (as claimed): with one -1 and an element count that the known product
\* does not divide, an error is reported and the call never returns a
\* resolved shape.
C7_NonDivisibleRejected ==
  (/\ SentinelCount(new_shape) = 1
   /\ \A j \in DOMAIN prev_shape : prev_shape[j] > 0
   /\ KnownProduct(new_shape) > 0
   /\ Product(prev_shape) % KnownProduct(new_shape) # 0) => ~Returned

\* An input that breaks a validation rule on the shape entries.
InvalidEntry ==
  \/ \E j \in DOMAIN prev_shape : prev_shape[j] <= 0
  \/ \E j \in DOMAIN new_shape : new_shape[j] <= 0 /\ new_shape[j] # -1

\* C8 (as claimed): on an input that breaks a validation rule an error is
\* reported and, until then, no element of either output is written.
C8_ValidationBeforeWrites ==
  (InvalidEntry /\ SentinelCount(new_shape) <= 1) =>
    (NoOutputWritten /\ ~Returned)

\* The rows the running call has to return, given the resolved shape.
ExpectedRows ==
  IF equal_shape THEN sparse_indices
  ELSE GeneralPath(sparse_indices, prev_shape, out_new_shape)

\* No division of the per-row phase has a zero divisor.
NoZeroDivider ==
  equal_shape \/ \A j \in DOMAIN out_new_shape : DividersOf(out_new_shape)[j] # 0

\* C9: under every interleaving of the per-row steps, an iteration that has
\* not started has left its row of scratch and output untouched, a finished
\* flatten holds the offset of its own row, and a finished row of the output
\* is the one the rows computed one after the other give; so is the returned
\* matrix.
C9_InterleavingIndependence ==
  /\ \A i \in Rows :
       /\ (pc = "flatten" /\ rpc[i] = "flatten_init") =>
            flattened_indices[i] = Uninit
       /\ (pc = "flatten" /\ rpc[i] = "flatten_done") =>
            flattened_indices[i] = FlattenOf(sparse_indices[i], multipliers)
       /\ (pc \in {"copy", "unflatten"} /\ rpc[i] \in {"copy", "unflatten_init"}
           /\ rj[i] = 0) =>
            \A j \in DOMAIN new_shape : new_sparse_indices[i][j] = Uninit
       /\ (pc = "unflatten" /\ rpc[i] = "unflatten_init") =>
            current_element[i] = Uninit
       /\ (pc \in {"copy", "unflatten"} /\ rpc[i] = "done" /\ NoZeroDivider) =>
            new_sparse_indices[i] = ExpectedRows[i]
  /\ (Returned /\ NoZeroDivider) => new_sparse_indices = ExpectedRows

\* C9 witness: on the general path, row 1 has finished while row 0 is in the
\* middle of its divisions, and the two rows differ.
C9_Witness ==
  /\ pc = "unflatten" /\ NumRows = 2 /\ NoZeroDivider /\ ValidCall
  /\ new_shape_size = 2
  /\ rpc[1] = "done" /\ rpc[0] = "unflatten" /\ rj[0] = 1
  /\ sparse_indices[0] # sparse_indices[1]
  /\ new_sparse_indices[1] # sparse_indices[1]

PerRowPhase == pc \in {"copy", "flatten", "unflatten", "done"}

\* The values of the sequential phase are all written.
SequentialPhaseComplete ==
  /\ total_ele = TotalEleOf(prev_shape)
  /\ division_total_ele = DivisionTotalOf(new_shape)
  /\ multipliers = MultipliersOf(prev_shape)
  /\ \A j \in DOMAIN out_new_shape : out_new_shape[j] # Uninit
  /\ ~equal_shape => dividers = DividersOf(out_new_shape)

\* C10: once the per-row phase has begun the values of the sequential phase
\* are complete and no step changes them any more, and the second parallel
\* loop runs only on fully accumulated offsets.
C10_PhaseOrdering ==
  /\ [](PerRowPhase => SequentialPhaseComplete)
  /\ [](pc = "unflatten" =>
          \A i \in Rows :
            flattened_indices[i] = FlattenOf(sparse_indices[i], multipliers))
  /\ [][PerRowPhase =>
          /\ (PerRowPhase' \/ pc' = "trap")
          /\ UNCHANGED <<total_ele, division_total_ele, multipliers,
                         out_new_shape, dividers, equal_shape>>
          /\ (pc = "unflatten" => flattened_indices' = flattened_indices)]_vars

\* C10 witness: the general path has reached its second parallel loop with
\* two-entry tables and a row at a non-zero offset.
C10_Witness ==
  /\ pc = "unflatten" /\ prev_shape_size = 2 /\ new_shape_size = 2
  /\ NumRows = 2 /\ flattened_indices[1] > 0
  /\ rpc[0] = "unflatten" /\ rpc[1] = "unflatten_init"
  /\ dividers[0] > 1 /\ multipliers[0] > 1

\* ---- calls on shapes whose element count does not fit the dtype ----

\* The least extent whose square is outside the dtype.
LargeExtent == 2 ^ (IntBits \div 2)

LargeMatrices(cols) ==
  UNION {[0 .. (r - 1) -> [0 .. (cols - 1) -> {0, LargeExtent - 1}]] :
           r \in 0 .. MaxRows}

InitLarge ==
  \E ps \in Vectors({1, LargeExtent}), ns \in Vectors({-1, 1, LargeExtent}) :
    \E si \in LargeMatrices(Size(ps)) : Entry(si, ps, ns)

SpecLarge == InitLarge /\ [][Next]_vars

\* C11 (as claimed): the element count and the per-row offsets are computed
\* without wrap-around, whatever the dtype of the buffers: a call on valid
\* entries and in-range coordinates that returns holds the exact element
\* count of prev_shape in total_ele and, on the general path, the exact
\* linear offset of every row (a count that does not fit raises an error, so
\* that such a call does not return).
C11_NoSilentWrap ==
  (Returned /\ EntriesValid /\ CoordsInRange) =>
    /\ total_ele = Product(prev_shape)
    /\ ~equal_shape =>
         \A i \in Rows :
           flattened_indices[i] = LinearOffset(sparse_indices[i], prev_shape)

\* C12: a valid call with N = 0 rows never traps, can always take a step
\* until it returns, has an output matrix of 0 rows, and returns the
\* complete resolved shape: the exact quotient at the -1, the entries of
\* new_shape elsewhere.
C12_EmptyInput ==
  (NumRows = 0 /\ ValidCall) =>
    /\ pc # "trap"
    /\ ~Returned => ENABLED Next
    /\ DOMAIN new_sparse_indices = {}
    /\ Returned =>
         \A j \in DOMAIN new_shape :
           out_new_shape[j] =
             IF new_shape[j] = -1
             THEN Product(prev_shape) \div KnownProduct(new_shape)
             ELSE new_shape[j]

\* C12 witness: a call without rows returned a shape whose -1 was resolved
\* to 3.
C12_Witness ==
  /\ Returned /\ NumRows = 0 /\ ValidCall
  /\ prev_shape_size = 2 /\ new_shape_size = 2
  /\ new_shape[1] = -1 /\ out_new_shape[1] = 3

\* ---- the example of the docstring of sparse_reshape ----

\* A Python list as a 0-indexed buffer.
Buffer(seq) == [j \in 0 .. (Len(seq) - 1) |-> seq[j + 1]]

DocSparseIndices ==
  Buffer(<<Buffer(<<0, 0, 0>>), Buffer(<<0, 0, 1>>), Buffer(<<0, 1, 0>>),
           Buffer(<<1, 0, 0>>), Buffer(<<1, 2, 3>>)>>)
DocPrevShape == Buffer(<<2, 3, 4>>)
DocNewShape == Buffer(<<9, -1>>)
DocNewSparseIndices ==
  Buffer(<<Buffer(<<0, 0>>), Buffer(<<0, 1>>), Buffer(<<1, 2>>),
           Buffer(<<4, 2>>), Buffer(<<8, 1>>)>>)
DocOutNewShape == Buffer(<<9, 4>>)

\* The previous shape of 36 elements that the documented result belongs to.
SixColumnsPrevShape == Buffer(<<2, 3, 6>>)

\* The documented rows, under either previous shape, reshaped to [9, -1] or
\* to the previous shape itself.
InitExample ==
  \E ps \in {DocPrevShape, SixColumnsPrevShape} :
    \E ns \in {DocNewShape, ps} : Entry(DocSparseIndices, ps, ns)

SpecExample == InitExample /\ [][Next]_vars

C15_OutputInBounds ==
  (/\ PerRowPhase /\ ValidCall /\ CoordsInRange
   /\ Product(out_new_shape) = Product(prev_shape)) =>
    \A i \in Rows :
      /\ \A j \in DOMAIN new_shape :
           new_sparse_indices[i][j] # Uninit =>
             /\ 0 <= new_sparse_indices[i][j]
             /\ new_sparse_indices[i][j] < out_new_shape[j]
      /\ (pc \in {"unflatten", "done"} /\ ~equal_shape) =>
           LET done == IF rpc[i] = "done" THEN new_shape_size
                       ELSE IF rpc[i] = "unflatten" THEN rj[i] ELSE 0
           IN  done > 0 =>
                 /\ 0 <= current_element[i]
                 /\ current_element[i] < dividers[done - 1]

\* C15 witness: on the general path a row has written its first coordinate,
\* larger than 1, and carries a non-zero remainder below the divider.
C15_Witness ==
  /\ pc = "unflatten" /\ ValidCall /\ CoordsInRange
  /\ Product(out_new_shape) = Product(prev_shape)
  /\ new_shape_size = 2 /\ NumRows = 2
  /\ rpc[0] = "unflatten" /\ rj[0] = 1
  /\ new_sparse_indices[0][0] > 1
  /\ current_element[0] > 0 /\ current_element[0] < dividers[0]

\* ---- make_inputs_dict ----

\* Names of tensors, of the graph or only of the user's file.
Names == {"a", "b", "c"}
Shapes == {<<1>>, <<2, 2>>}
DTypes == {"int8", "uint8", "float32"}
\* The choices of --fill-mode, and a string outside them.
FillModes == {"zeros", "ones", "random", "other"}

\* A tensor: where it comes from, its shape and dtype, and the value of one
\* of its elements.
Tensor(origin, shape, dtype, elem) ==
  [origin |-> origin, shape |-> shape, dtype |-> dtype, elem |-> elem]

\* Arrays a user can supply.
UserTensors ==
  {Tensor("user", <<1>>, "float32", 5), Tensor("user", <<2, 2>>, "int8", 0)}

Dicts(keys, values) == UNION {[ks -> values] : ks \in SUBSET keys}

\* "int8" in dtype
HasInt8(dtype) == dtype \in {"int8", "uint8"}

\* generate_tensor_data: the tensors it can return, or the TVMCException of
\* an unknown fill-mode.  np.random.randint(128) draws from 0 .. 127,
\* np.random.uniform(-1, 1) from [-1, 1); the least and the greatest integer
\* element stand for the draw.
GenerateOutcomes(shape, dtype, mode) ==
  IF mode = "zeros"
  THEN {[raised |-> FALSE, tensor |-> Tensor("generated", shape, dtype, 0)]}
  ELSE IF mode = "ones"
  THEN {[raised |-> FALSE, tensor |-> Tensor("generated", shape, dtype, 1)]}
  ELSE IF mode = "random"
  THEN {[raised |-> FALSE, tensor |-> Tensor("generated", shape, dtype, e)] :
          e \in (IF HasInt8(dtype) THEN {0, 127} ELSE {-1, 0})}
  ELSE {[raised |-> TRUE, tensor |-> Tensor("none", shape, dtype, 0)]}

\* The kernel is not running.
KernelIdle ==
  /\ sparse_indices = EmptyDict /\ prev_shape = EmptyDict
  /\ new_shape = EmptyDict /\ new_sparse_indices = EmptyDict
  /\ out_new_shape = EmptyDict /\ multipliers = EmptyDict
  /\ dividers = EmptyDict /\ flattened_indices = EmptyDict
  /\ total_ele = Uninit /\ division_total_ele = Uninit
  /\ equal_shape = FALSE /\ current_element = EmptyDict
  /\ pc = "idle" /\ k = 0 /\ rpc = EmptyDict /\ rj = EmptyDict

\* A call make_inputs_dict(shape_dict, dtype_dict, inputs, fill_mode).
InitRunner ==
  /\ KernelIdle
  /\ \E names \in SUBSET Names :
       /\ shape_dict \in [names -> Shapes]
       /\ dtype_dict \in [names -> DTypes]
  /\ inputs_param \in {NoInputs} \cup {Given(d) : d \in Dicts(Names, UserTensors)}
  /\ fill_mode \in FillModes
  /\ inputs_dict = EmptyDict
  /\ checked = {}
  /\ mi_pc = "start"

\* if inputs is None: inputs = {}
InputsDefault ==
  /\ mi_pc = "start"
  /\ inputs_param' = IF inputs_param.none THEN Given(EmptyDict) ELSE inputs_param
  /\ mi_pc' = "check"
  /\ UNCHANGED <<kernel, shape_dict, dtype_dict, fill_mode, inputs_dict, checked>>

\* One iteration of "First check all the keys in inputs exist in the graph".
CheckInputName ==
  /\ mi_pc = "check"
  /\ \E input_name \in DOMAIN inputs_param.dict \ checked :
       IF input_name \notin DOMAIN shape_dict
       THEN mi_pc' = "raised" /\ UNCHANGED checked
       ELSE mi_pc' = "check" /\ checked' = checked \cup {input_name}
  /\ UNCHANGED <<kernel, shape_dict, dtype_dict, inputs_param, fill_mode,
                 inputs_dict>>

\* The first loop is over: inputs_dict = {}
CheckDone ==
  /\ mi_pc = "check"
  /\ checked = DOMAIN inputs_param.dict
  /\ inputs_dict' = EmptyDict
  /\ mi_pc' = "build"
  /\ UNCHANGED <<kernel, shape_dict, dtype_dict, inputs_param, fill_mode,
                 checked>>

\* dict[key] = value
Store(dict, key, value) ==
  [n \in DOMAIN dict \cup {key} |-> IF n = key THEN value ELSE dict[n]]

\* Mutant: every tensor is generated, the user's data is ignored.
SetInputAlwaysGenerate ==
  /\ mi_pc = "build"
  /\ \E input_name \in DOMAIN shape_dict \ DOMAIN inputs_dict :
       \E o \in GenerateOutcomes(shape_dict[input_name],
                                 dtype_dict[input_name], fill_mode) :
         IF o.raised
         THEN mi_pc' = "raised" /\ UNCHANGED inputs_dict
         ELSE /\ inputs_dict' = Store(inputs_dict, input_name, o.tensor)
              /\ mi_pc' = "build"
  /\ UNCHANGED <<kernel, shape_dict, dtype_dict, inputs_param, fill_mode,
                 checked>>

\* One iteration of the loop that constructs the input dict.
SetInput ==
  /\ mi_pc = "build"
  /\ \E input_name \in DOMAIN shape_dict \ DOMAIN inputs_dict :
       IF input_name \in DOMAIN inputs_param.dict
       THEN /\ inputs_dict' =
                 Store(inputs_dict, input_name, inputs_param.dict[input_name])
            /\ mi_pc' = "build"
       ELSE \E o \in GenerateOutcomes(shape_dict[input_name],
                                      dtype_dict[input_name], fill_mode) :
              IF o.raised
              THEN mi_pc' = "raised" /\ UNCHANGED inputs_dict
              ELSE /\ inputs_dict' = Store(inputs_dict, input_name, o.tensor)
                   /\ mi_pc' = "build"
  /\ UNCHANGED <<kernel, shape_dict, dtype_dict, inputs_param, fill_mode,
                 checked>>

\* return inputs_dict
ReturnInputsDict ==
  /\ mi_pc = "build"
  /\ DOMAIN inputs_dict = DOMAIN shape_dict
  /\ mi_pc' = "returned"
  /\ UNCHANGED <<kernel, shape_dict, dtype_dict, inputs_param, fill_mode,
                 inputs_dict, checked>>

NextRunner ==
  \/ InputsDefault
  \/ CheckInputName
  \/ CheckDone
  \/ SetInput
  \/ ReturnInputsDict

SpecRunner == InitRunner /\ [][NextRunner]_vars

\* Some key of inputs is not an input name of the graph.
UnknownInputName ==
  \E n \in DOMAIN inputs_param.dict : n \notin DOMAIN shape_dict

\* C14: with a key of inputs outside the graph, the call stays in its first
\* loop until it raises, with no tensor generated or stored; otherwise a
\* returned dictionary has exactly the keys of shape_dict, holds the user's
\* value for every name in inputs and, for every other name, a generated
\* tensor of the graph's shape and dtype filled as fill_mode says.
C14_MakeInputsDict ==
  /\ UnknownInputName =>
       /\ mi_pc \in {"start", "check", "raised"}
       /\ inputs_dict = EmptyDict
       /\ mi_pc # "raised" => ENABLED NextRunner
  /\ (~UnknownInputName /\ mi_pc = "returned") =>
       /\ DOMAIN inputs_dict = DOMAIN shape_dict
       /\ \A n \in DOMAIN shape_dict :
            IF n \in DOMAIN inputs_param.dict
            THEN inputs_dict[n] = inputs_param.dict[n]
            ELSE /\ inputs_dict[n].origin = "generated"
                 /\ inputs_dict[n].shape = shape_dict[n]
                 /\ inputs_dict[n].dtype = dtype_dict[n]
                 /\ fill_mode \in {"zeros", "ones", "random"}
                 /\ fill_mode = "zeros" => inputs_dict[n].elem = 0
                 /\ fill_mode = "ones" => inputs_dict[n].elem = 1
                 /\ fill_mode = "random" =>
                      IF HasInt8(dtype_dict[n])
                      THEN inputs_dict[n].elem \in 0 .. 127
                      ELSE inputs_dict[n].elem \in -1 .. 0

\* C14 witness: a dictionary was returned that holds the user's tensor for
\* one name and a tensor of ones for another.
C14_Witness ==
  /\ mi_pc = "returned" /\ fill_mode = "ones"
  /\ DOMAIN shape_dict = {"a", "b"}
  /\ DOMAIN inputs_param.dict = {"a"}
  /\ inputs_dict["a"].origin = "user"
  /\ inputs_dict["b"].elem = 1

\* C14 second witness: a key outside the graph made the call raise.
C14_RaisedWitness ==
  /\ mi_pc = "raised" /\ UnknownInputName
  /\ DOMAIN shape_dict = {"a"} /\ DOMAIN inputs_param.dict = {"a", "c"}
====
